---- MODULE Spec2Model ----
(***************************************************************************)
(* Model of the order / trader / market state-machine layer of dagger:     *)
(*   cex/okexv5/spot_market.go     SpotMarket   (readiness gate)           *)
(*   cex/okexv5/future_market.go   FutureMarket (feed flags, readiness)    *)
(*   cex/binance/spot_trader.go    SpotTrader   (orders map, sweeper,      *)
(*                                  snapshot callback, MakeOrder)          *)
(* Collaborators whose code is outside the sources at hand (the balance    *)
(* ledger, the base order state machine, the logger) are modelled from the *)
(* design document and are marked as such where they are defined.          *)
(***************************************************************************)
EXTENDS Integers, Sequences, FiniteSets, TLC

VARIABLES
    \* ---- markets (okexv5.CommonMarket / SpotMarket / FutureMarket) ----
    depthOK,        \* CommonMarket.depthOK, one per market: [spot, future]
    markpriceOK,    \* FutureMarket.markpriceOK
    priceLimitOK,   \* FutureMarket.priceLimitOK
    fundingFeeOK,   \* FutureMarket.fundingFeeOK
    isSwap,         \* strings.Contains(instID, "SWAP") of the future market
    maxBuyPrice,    \* FutureMarket.maxBuyPrice
    minSellPrice,   \* FutureMarket.minSellPrice
    subscribed,     \* the future market's channels are subscribed (not yet Uninit)
    tk,             \* the tickers of subscribe(): time run since (re)start
    task,           \* the staleness tasks of subscribe(): where each one is
    quiet,          \* time since the last update of each feed (up to its window)
    \* ---- trader (binance.SpotTrader) ----
    stratergyId,    \* SpotTrader.stratergyId
    baseReady,      \* t.baseBalance.Ready()
    quoteReady,     \* t.quoteBalance.Ready()
    exchangeReady,  \* package-level exchangeReady
    errorlock,      \* SpotTrader.errorlock
    finished,       \* SpotTrader.finished
    registered,     \* the order-snapshot callback is registered with the exchange
    orders,         \* SpotTrader.orders : client id -> order reference
    heap,           \* every SpotOrder object constructed so far; heap[i] is reference i
    muOrders,       \* SpotTrader.muOrders : [w: writer or "none", r: set of readers]
    tempRights,     \* temporary rights recorded on the balances: [base, quote]
    cb,             \* the order-snapshot callback (exchange stream goroutine)
    sw,             \* the sweeper goroutine
    mk,             \* the caller running MakeOrder
    \* ---- balances (common.BalanceImpl of the base and quote currency) ----
    ledger,         \* temporary rights adjustments recorded, per balance
    dl,             \* the goroutines running SpotTrader.OnDeal
    avail,          \* BalanceImpl.Available() of the base and the quote balance
    rd,             \* how many adjustments of each balance the rights held
                    \* that a reader of the two balances last read
    \* ---- one order (SpotOrder) and its observers ----
    fill,           \* the snapshots delivered to the order, its Filled, the
                    \* deals it emitted and the OnDeal calls it made
    \* ---- one contract order (okexv5.ContractOrder) and what it reads ----
    co,             \* the order's fields, the trader's position, the exchange's
                    \* position mode, what Init and getPosSide returned
    \* ---- callers of SpotTrader.String and SpotTrader.Orders ----
    rdr,            \* where each of the two callers is; the capacity and the
                    \* length of the slice Orders() builds
    \* ---- observation ----
    probe           \* last result returned by a Ready() call

marketVars == <<depthOK, markpriceOK, priceLimitOK, fundingFeeOK, isSwap,
                maxBuyPrice, minSellPrice, subscribed, tk, task, quiet>>
traderVars == <<stratergyId, baseReady, quoteReady, exchangeReady, errorlock,
                finished, registered, orders, heap, muOrders, tempRights,
                cb, sw, mk>>
ledgerVars == <<ledger, dl, rd, avail>>
vars == <<marketVars, traderVars, ledgerVars, fill, co, rdr, probe>>

\* ------------------------------------------------------------------ bounds
MaxOrders == 2          \* SpotOrder objects constructed by MakeOrder
MaxFill == 1            \* largest cumulative filled amount of a snapshot
MaxDeals == 2           \* deals reconciled on the balances by OnDeal
MaxPrice == 3           \* prices of deals and of requests: 1..MaxPrice
MaxCum == 7             \* cumulative filled amount of a snapshot, in tenths
MaxSnapshots == 3       \* snapshots delivered to one order
MaxPos == 2             \* position and order size of a contract order, in contracts
MaxAvail == 4           \* available amount of a balance: 0..MaxAvail
DivisionPrecision == 1  \* decimal places a quotient of two decimals keeps

Nil == 0                \* the nil order reference
UnknownCid == <<"cid", 0>>   \* a client order id no order of this trader carries
Buy == "Buy"
Sell == "Sell"

\* ------------------------------------------------------ market readiness
\* okexv5.SpotMarket.Ready. The binance SpotMarket the SpotTrader holds is
\* not among the sources; the design document gives every spot market the
\* same gate (depth feed only), so the trader uses this operator too.
SpotMarket_Ready == depthOK["spot"]

SpotMarket_UnreadyReason == IF ~depthOK["spot"] THEN "depth not ready" ELSE ""

FutureMarket_Ready_NoLimit == depthOK["future"] /\ fundingFeeOK /\ markpriceOK

FutureMarket_Ready ==
    depthOK["future"] /\ fundingFeeOK /\ markpriceOK /\ priceLimitOK

\* The tickers of subscribe() and their periods: mark price 20 s; price
\* limit, REST poll 10 s and resubscription 20 s (in units of 10 s); funding
\* rate 180 s (in units of 90 s). The three tasks run on clocks of their own.
Tickers == {"mark", "rest", "resub", "fund"}
Period == [mark |-> 2, rest |-> 1, resub |-> 2, fund |-> 2]
Tasks == {"mark", "limit", "fund"}
TickersOf(x) == IF x = "limit" THEN {"rest", "resub"} ELSE {x}
\* The staleness window of a feed: the period of the ticker that clears its flag.
Window(x) == IF x = "limit" THEN Period["resub"] ELSE Period[x]
Min(a, b) == IF a < b THEN a ELSE b

\* The end of subscribe(): a SWAP instrument gets the funding-rate task and
\* keeps the flag Init cleared; any other instrument gets m.fundingFeeOK = true.
FundingFeeAtSubscribe_Cleared(swap) == FALSE

FundingFeeAtSubscribe(swap) == ~swap

\* FutureMarket.Init followed by subscribe(): the three flags are cleared and
\* an instrument that is not a SWAP gets fundingFeeOK = true at once; the
\* tickers are started and every task waits on its ticker's channel.
\* CommonMarket.Init (not in the sources) leaves depthOK false.
MarketInit ==
    /\ depthOK = [m \in {"spot", "future"} |-> FALSE]
    /\ markpriceOK = FALSE
    /\ priceLimitOK = FALSE
    /\ isSwap \in BOOLEAN
    /\ fundingFeeOK = FundingFeeAtSubscribe(isSwap)
    /\ maxBuyPrice = 0
    /\ minSellPrice = 0
    /\ subscribed = TRUE
    /\ tk = [t \in Tickers |-> 0]
    /\ task = [x \in Tasks |-> "wait"]
    /\ quiet = [x \in Tasks |-> 0]

\* CommonMarket depth feed: an order-book update sets the flag, a stale or
\* broken book clears it.
DepthFeed(m, ok) ==
    /\ depthOK' = [depthOK EXCEPT ![m] = ok]
    /\ UNCHANGED <<markpriceOK, priceLimitOK, fundingFeeOK, isSwap,
                   maxBuyPrice, minSellPrice, subscribed, tk, task, quiet>>
    /\ UNCHANGED <<traderVars, probe, ledgerVars, fill, co, rdr>>

\* Time passes on the clock of task x: its tickers run on, up to the tick
\* they deliver on their channel when the period is over.
Tick(x) ==
    /\ x = "fund" => isSwap
    /\ tk' = [t \in Tickers |->
                IF t \in TickersOf(x) THEN Min(tk[t] + 1, Period[t]) ELSE tk[t]]
    /\ quiet' = [f \in Tasks |->
                   IF f = x THEN Min(quiet[f] + 1, Window(f)) ELSE quiet[f]]
    /\ <<tk', quiet'>> # <<tk, quiet>>
    /\ UNCHANGED <<depthOK, markpriceOK, priceLimitOK, fundingFeeOK, isSwap,
                   maxBuyPrice, minSellPrice, subscribed, task>>
    /\ UNCHANGED <<traderVars, probe, ledgerVars, fill, co, rdr>>

\* timeout.Reset(d): the ticker starts its period again.
TickerReset_Ignored(t) == tk[t]

TickerReset(t) == 0

\* subscribe(): mark-price stream callback.
MarkPriceUpdate ==
    /\ subscribed
    /\ tk' = [tk EXCEPT !["mark"] = TickerReset("mark")]
    /\ quiet' = [quiet EXCEPT !["mark"] = 0]
    /\ markpriceOK' = TRUE
    /\ UNCHANGED <<depthOK, priceLimitOK, fundingFeeOK, isSwap,
                   maxBuyPrice, minSellPrice, subscribed, task>>
    /\ UNCHANGED <<traderVars, probe, ledgerVars, fill, co, rdr>>

\* subscribe(): mark-price task, <-timeout.C returns.
MarkPriceExpire ==
    /\ task["mark"] = "wait"
    /\ tk["mark"] = Period["mark"]
    /\ tk' = [tk EXCEPT !["mark"] = 0]
    /\ task' = [task EXCEPT !["mark"] = "fired"]
    /\ UNCHANGED <<depthOK, markpriceOK, priceLimitOK, fundingFeeOK, isSwap,
                   maxBuyPrice, minSellPrice, subscribed, quiet>>
    /\ UNCHANGED <<traderVars, probe, ledgerVars, fill, co, rdr>>

\* subscribe(): mark-price task, m.markpriceOK = false; s.Reset().
MarkPriceTimeout ==
    /\ task["mark"] = "fired"
    /\ markpriceOK' = FALSE
    /\ task' = [task EXCEPT !["mark"] = "wait"]
    /\ UNCHANGED <<depthOK, priceLimitOK, fundingFeeOK, isSwap,
                   maxBuyPrice, minSellPrice, subscribed, tk, quiet>>
    /\ UNCHANGED <<traderVars, probe, ledgerVars, fill, co, rdr>>

\* timeout.Reset(d) on a ticker of the price-limit task while the task is
\* not waiting in its select (select took the other ticker's case, or the
\* REST call is running): a tick the ticker has delivered lies in its
\* channel. The period starts again in any case; the tick is dropped from
\* the channel by a runtime from Go 1.23 on and stays in it with an earlier
\* one, to be taken by the next select.
ResetOutcomes(t) ==
    IF tk[t] = Period[t] /\ task["limit"] # "wait"
    THEN {TickerReset(t), tk[t]}
    ELSE {TickerReset(t)}

\* timeoutReSub.Reset(20 s); timeoutREST.Reset(10 s)
PriceLimitTimersReset ==
    tk' \in {[tk EXCEPT !["resub"] = a, !["rest"] = b] :
                a \in ResetOutcomes("resub"), b \in ResetOutcomes("rest")}

\* The price limits a response can carry: sell limit below buy limit.
PriceLimitResps ==
    {r \in [SellLimit : 1..MaxPrice, BuyLimit : 2..(MaxPrice + 1)] :
        r.SellLimit < r.BuyLimit}

\* FutureMarket.onPriceLimitResp
onPriceLimitResp(resp) ==
    /\ minSellPrice' = resp.SellLimit
    /\ maxBuyPrice' = resp.BuyLimit

\* subscribe(): price-limit stream callback.
PriceLimitUpdate(resp) ==
    /\ subscribed
    /\ onPriceLimitResp(resp)
    /\ PriceLimitTimersReset
    /\ quiet' = [quiet EXCEPT !["limit"] = 0]
    /\ priceLimitOK' = TRUE
    /\ UNCHANGED <<depthOK, markpriceOK, fundingFeeOK, isSwap, subscribed, task>>
    /\ UNCHANGED <<traderVars, probe, ledgerVars, fill, co, rdr>>

\* subscribe(): price-limit task, case <-timeoutREST.C is taken.
PriceLimitPoll ==
    /\ task["limit"] = "wait"
    /\ tk["rest"] = Period["rest"]
    /\ tk' = [tk EXCEPT !["rest"] = 0]
    /\ task' = [task EXCEPT !["limit"] = "rest"]
    /\ UNCHANGED <<depthOK, markpriceOK, priceLimitOK, fundingFeeOK, isSwap,
                   maxBuyPrice, minSellPrice, subscribed, quiet>>
    /\ UNCHANGED <<traderVars, probe, ledgerVars, fill, co, rdr>>

\* subscribe(): price-limit task, okexv5api.GetPriceLimit and what follows;
\* restOK is err == nil && resp.Code == "0".
PriceLimitREST(restOK, resp) ==
    /\ task["limit"] = "rest"
    /\ IF restOK
       THEN /\ onPriceLimitResp(resp)
            /\ PriceLimitTimersReset
            /\ quiet' = [quiet EXCEPT !["limit"] = 0]
            /\ priceLimitOK' = TRUE
       ELSE UNCHANGED <<minSellPrice, maxBuyPrice, tk, quiet, priceLimitOK>>
    /\ task' = [task EXCEPT !["limit"] = "wait"]
    /\ UNCHANGED <<depthOK, markpriceOK, fundingFeeOK, isSwap, subscribed>>
    /\ UNCHANGED <<traderVars, probe, ledgerVars, fill, co, rdr>>

\* subscribe(): price-limit task, case <-timeoutReSub.C is taken.
PriceLimitExpire ==
    /\ task["limit"] = "wait"
    /\ tk["resub"] = Period["resub"]
    /\ tk' = [tk EXCEPT !["resub"] = 0]
    /\ task' = [task EXCEPT !["limit"] = "resub"]
    /\ UNCHANGED <<depthOK, markpriceOK, priceLimitOK, fundingFeeOK, isSwap,
                   maxBuyPrice, minSellPrice, subscribed, quiet>>
    /\ UNCHANGED <<traderVars, probe, ledgerVars, fill, co, rdr>>

\* subscribe(): price-limit task, m.priceLimitOK = false; s.Reset().
PriceLimitTimeout ==
    /\ task["limit"] = "resub"
    /\ priceLimitOK' = FALSE
    /\ task' = [task EXCEPT !["limit"] = "wait"]
    /\ UNCHANGED <<depthOK, markpriceOK, fundingFeeOK, isSwap,
                   maxBuyPrice, minSellPrice, subscribed, tk, quiet>>
    /\ UNCHANGED <<traderVars, probe, ledgerVars, fill, co, rdr>>

\* subscribe(): funding-rate stream callback (SWAP instruments only), with
\* onFundingRateResp.
FundingRateUpdate ==
    /\ isSwap
    /\ subscribed
    /\ tk' = [tk EXCEPT !["fund"] = TickerReset("fund")]
    /\ quiet' = [quiet EXCEPT !["fund"] = 0]
    /\ fundingFeeOK' = TRUE
    /\ UNCHANGED <<depthOK, markpriceOK, priceLimitOK, isSwap,
                   maxBuyPrice, minSellPrice, subscribed, task>>
    /\ UNCHANGED <<traderVars, probe, ledgerVars, fill, co, rdr>>

\* subscribe(): funding-rate task, <-timeout.C returns.
FundingRateExpire ==
    /\ isSwap
    /\ task["fund"] = "wait"
    /\ tk["fund"] = Period["fund"]
    /\ tk' = [tk EXCEPT !["fund"] = 0]
    /\ task' = [task EXCEPT !["fund"] = "fired"]
    /\ UNCHANGED <<depthOK, markpriceOK, priceLimitOK, fundingFeeOK, isSwap,
                   maxBuyPrice, minSellPrice, subscribed, quiet>>
    /\ UNCHANGED <<traderVars, probe, ledgerVars, fill, co, rdr>>

\* subscribe(): funding-rate task, m.fundingFeeOK = false; s.Reset().
FundingRateTimeout ==
    /\ isSwap
    /\ task["fund"] = "fired"
    /\ fundingFeeOK' = FALSE
    /\ task' = [task EXCEPT !["fund"] = "wait"]
    /\ UNCHANGED <<depthOK, markpriceOK, priceLimitOK, isSwap,
                   maxBuyPrice, minSellPrice, subscribed, tk, quiet>>
    /\ UNCHANGED <<traderVars, probe, ledgerVars, fill, co, rdr>>

\* FutureMarket.Uninit: the channels are unsubscribed, no update callback
\* runs any more (unsubscribe is not in the sources). The tasks and their
\* tickers are left as they are.
FutureMarket_Uninit ==
    /\ subscribed
    /\ subscribed' = FALSE
    /\ UNCHANGED <<depthOK, markpriceOK, priceLimitOK, fundingFeeOK, isSwap,
                   maxBuyPrice, minSellPrice, tk, task, quiet>>
    /\ UNCHANGED <<traderVars, probe, ledgerVars, fill, co, rdr>>

\* A caller invokes Ready() on a market and keeps the result.
NoArg == [dir |-> "none", price |-> 0, makeOnly |-> FALSE]
Observe(op, ret) ==
    probe' = [op |-> op, ret |-> ret, seq |-> 1 - probe.seq,
              arg |-> NoArg, val |-> 0]

\* A caller invokes an operation with a direction, a price and a makeOnly
\* flag and keeps the decimal it returns.
ObserveDecimal(op, arg, val) ==
    probe' = [op |-> op, ret |-> FALSE, seq |-> 1 - probe.seq,
              arg |-> arg, val |-> val]

\* The tick size of the instrument, in the unit prices are counted in.
TickSize == 2

Max(a, b) == IF a > b THEN a ELSE b

\* CommonMarket.AlignPrice (design document 4.2): to a multiple of the tick
\* size; a maker-only buy is rounded down, a maker-only sell up, so that
\* neither crosses the spread; an order that may take, the other way.
CommonMarket_AlignPrice(price, dir, makeOnly) ==
    IF (dir = Buy) = makeOnly
    THEN (price \div TickSize) * TickSize
    ELSE ((price + TickSize - 1) \div TickSize) * TickSize

\* FutureMarket.AlignPrice
FutureMarket_AlignPrice(price, dir, makeOnly) ==
    LET aligned == CommonMarket_AlignPrice(price, dir, makeOnly)
    IN IF dir = Buy /\ aligned > maxBuyPrice
       THEN maxBuyPrice
       ELSE IF dir = Sell /\ aligned < minSellPrice
            THEN minSellPrice
            ELSE aligned

AlignPriceCall(price, dir, makeOnly) ==
    /\ ObserveDecimal("AlignPrice",
                      [dir |-> dir, price |-> price, makeOnly |-> makeOnly],
                      FutureMarket_AlignPrice(price, dir, makeOnly))
    /\ UNCHANGED <<marketVars, traderVars, ledgerVars, fill, co, rdr>>

SpotMarketReadyCall ==
    /\ Observe("SpotMarket.Ready", SpotMarket_Ready)
    /\ UNCHANGED <<marketVars, traderVars, ledgerVars, fill, co, rdr>>

FutureMarketReadyCall ==
    /\ Observe("FutureMarket.Ready", FutureMarket_Ready)
    /\ UNCHANGED <<marketVars, traderVars, ledgerVars, fill, co, rdr>>

\* ---------------------------------------------------------------- trader
SpotTrader_Ready_NoLock ==
    SpotMarket_Ready /\ baseReady /\ quoteReady /\ exchangeReady

\* SpotTrader.Ready
SpotTrader_Ready ==
    SpotMarket_Ready /\ baseReady /\ quoteReady /\ exchangeReady /\ ~errorlock

\* NewClientOrderId: a fresh id, different for every order constructed.
NewClientOrderId == <<"cid", Len(heap) + 1>>

\* SpotOrder.Init validation (base order state machine, design document 4.3):
\* a zero amount is refused.
SpotOrder_Init(price, amount) == amount # 0

\* new(SpotOrder) followed by Init: the object as MakeOrder holds it.
NewOrder(dir, price, amount) ==
    [CltOrderId |-> NewClientOrderId, Dir |-> dir, Price |-> price,
     initOK |-> SpotOrder_Init(price, amount),
     observers |-> <<>>, sent |-> FALSE, Filled |-> 0, Finished |-> FALSE]

Refs == 1..Len(heap)
SentRefs == {i \in Refs : heap[i].sent}
InMap(i) == \E c \in DOMAIN orders : orders[c] = i

\* SpotTrader.OnDeal: the RecordTempRights calls it makes for one deal, in
\* the order it makes them.
OnDealCalls_QuoteUnpriced(dir, amount, price, utime) ==
    IF dir = Buy
    THEN <<[bal |-> "base", delta |-> amount, at |-> utime],
           [bal |-> "quote", delta |-> 0 - amount, at |-> utime]>>
    ELSE IF dir = Sell
    THEN <<[bal |-> "base", delta |-> 0 - amount, at |-> utime],
           [bal |-> "quote", delta |-> amount, at |-> utime]>>
    ELSE <<>>

OnDealCalls(dir, amount, price, utime) ==
    IF dir = Buy
    THEN <<[bal |-> "base", delta |-> amount, at |-> utime],
           [bal |-> "quote", delta |-> 0 - (amount * price), at |-> utime]>>
    ELSE IF dir = Sell
    THEN <<[bal |-> "base", delta |-> 0 - amount, at |-> utime],
           [bal |-> "quote", delta |-> amount * price, at |-> utime]>>
    ELSE <<>>

\* SpotTrader.OnDeal run to its end on the rights totals r.
OnDeal(r, dir, amount, price) ==
    LET c == OnDealCalls(dir, amount, price, 0)
    IN IF c = <<>> THEN r
       ELSE [base |-> r.base + c[1].delta, quote |-> r.quote + c[2].delta]

\* The order of the two AddObserver calls of MakeOrder.
MakeOrderObservers_Swapped == <<"caller", "trader">>

MakeOrderObservers == <<"trader", "caller">>

\* The strategy check of the snapshot callback.
ForeignStratergy_AnyOther(os) == os.StratergyId # stratergyId

ForeignStratergy(os) == os.StratergyId > 0 /\ os.StratergyId # stratergyId

NoSnapshot ==
    [ClientOrderID |-> UnknownCid, StratergyId |-> 0, cum |-> 0, final |-> FALSE]
CbIdle == [pc |-> "idle", os |-> NoSnapshot, o |-> Nil, ok |-> FALSE]
SwIdle == [pc |-> "test", todo |-> {}, startFin |-> {}, late |-> 0]

\* The snapshots the exchange can deliver on this instrument: one for an
\* order this trader has submitted (tagged with the trader's strategy), or
\* one for an order this trader does not hold (unknown client id), tagged
\* with no strategy (0), with the trader's own or with another one.
Snapshots ==
    {[ClientOrderID |-> heap[i].CltOrderId, StratergyId |-> stratergyId,
      cum |-> c, final |-> f] : i \in SentRefs, c \in 0..MaxFill, f \in BOOLEAN}
    \cup
    {[ClientOrderID |-> UnknownCid, StratergyId |-> s, cum |-> 0, final |-> FALSE]
       : s \in {0, stratergyId, stratergyId + 1}}

\* SpotTrader.Init: the state when Init returns.
TraderInit ==
    /\ stratergyId = 1
    /\ errorlock = FALSE
    /\ finished = FALSE
    /\ registered = TRUE
    /\ orders = <<>>
    /\ heap = <<>>
    /\ muOrders = [w |-> "none", r |-> {}]
    /\ tempRights = [base |-> 0, quote |-> 0]
    /\ cb = CbIdle
    /\ sw = SwIdle
    /\ mk = [pc |-> "idle", o |-> Nil, ret |-> Nil, why |-> "none"]

\* ---- environment of the trader
\* The balance manager receives its first authoritative account snapshot.
BalanceReady(ccy) ==
    /\ IF ccy = "base"
       THEN baseReady' = TRUE /\ UNCHANGED quoteReady
       ELSE quoteReady' = TRUE /\ UNCHANGED baseReady
    /\ UNCHANGED <<marketVars, probe, ledgerVars, fill, co, rdr>>
    /\ UNCHANGED <<stratergyId, exchangeReady, errorlock, finished, registered,
                   orders, heap, muOrders, tempRights, cb, sw, mk>>

\* The exchange connection comes up or goes down.
ExchangeReady(ok) ==
    /\ exchangeReady' = ok
    /\ UNCHANGED <<marketVars, probe, ledgerVars, fill, co, rdr>>
    /\ UNCHANGED <<stratergyId, baseReady, quoteReady, errorlock, finished,
                   registered, orders, heap, muOrders, tempRights, cb, sw, mk>>

\* ---- the balances and SpotTrader.OnDeal as the observers' goroutines run it
\* (in Spec the rights are kept as totals, tempRights; here every adjustment
\* is kept as recorded)
Callers == {1, 2}
\* The deals an order can report next: the exchange's clock has moved on
\* since the deal before.
Deals ==
    [dir : {Buy, Sell}, Amount : 1..MaxFill, Price : 1..MaxPrice,
     UTime : {Len(ledger["base"]) + 1}]
NoDeal == [dir |-> "none", Amount |-> 0, Price |-> 0, UTime |-> 0]

LedgerInit ==
    /\ ledger = [b \in {"base", "quote"} |-> <<>>]
    /\ dl = [c \in Callers |-> [pc |-> "idle", deal |-> NoDeal]]
    /\ rd = [nbase |-> 0, nquote |-> 0]
    /\ avail = [base |-> 0, quote |-> 0]

RECURSIVE SumDeltas(_)
SumDeltas(adj) ==
    IF adj = <<>> THEN 0 ELSE adj[1].delta + SumDeltas(Tail(adj))

\* BalanceImpl.Rights less the available amount: the sum of the outstanding
\* temporary adjustments (design document 4.1).
TempRights(bal) == SumDeltas(ledger[bal])

\* BalanceImpl.RecordTempRights(delta, at): one adjustment is added to the
\* balance, atomically (design document 5.1).
RecordTempRights(call) ==
    ledger' = [ledger EXCEPT ![call.bal] = Append(@, [delta |-> call.delta,
                                                      at |-> call.at])]

\* OnDeal is entered with a deal and makes its first RecordTempRights call
\* (the base balance).
OnDealBase(c, deal) ==
    /\ dl[c].pc = "idle"
    /\ Len(ledger["base"]) < MaxDeals
    /\ RecordTempRights(OnDealCalls(deal.dir, deal.Amount, deal.Price, deal.UTime)[1])
    /\ dl' = [dl EXCEPT ![c] = [pc |-> "quote", deal |-> deal]]
    /\ UNCHANGED <<marketVars, traderVars, probe, rd, avail, fill, co, rdr>>

\* the second RecordTempRights call (the quote balance); OnDeal returns
OnDealQuote(c) ==
    /\ dl[c].pc = "quote"
    /\ LET d == dl[c].deal
       IN RecordTempRights(OnDealCalls(d.dir, d.Amount, d.Price, d.UTime)[2])
    /\ dl' = [dl EXCEPT ![c].pc = "idle"]
    /\ UNCHANGED <<marketVars, traderVars, probe, rd, avail, fill, co, rdr>>

\* A reader (String(), strategy code) reads the rights of both balances.
ReadRights ==
    /\ rd' = [nbase |-> Len(ledger["base"]), nquote |-> Len(ledger["quote"])]
    /\ rd' # rd
    /\ UNCHANGED <<marketVars, traderVars, probe, ledger, dl, avail, fill, co, rdr>>

\* ---- decimals and SpotTrader.AvailableAmount
\* A decimal is kept as a whole number of units of 10^-DivisionPrecision.
Scale == 10 ^ DivisionPrecision
Dec(n) == n * Scale

\* decimal.Decimal.Div: the quotient rounded half up to DivisionPrecision
\* places (divisor > 0, dividend >= 0).
Div(x, y) == (2 * x * Scale + y) \div (2 * y)

\* The size step of the instrument: half a unit.
SizeStep == Scale \div 2

\* SpotMarket.AlignSize: down to a multiple of the size step (design
\* document 4.2).
AlignSize(x) == (x \div SizeStep) * SizeStep

AvailableAmount_Unaligned(dir, price) ==
    IF dir = Buy THEN Div(avail.quote, price) ELSE avail.base

\* SpotTrader.AvailableAmount
AvailableAmount(dir, price) ==
    IF dir = Buy
    THEN AlignSize(Div(avail.quote, price))
    ELSE avail.base

\* A caller invokes AvailableAmount and keeps the result.
AvailableAmountCall(dir, price) ==
    /\ ObserveDecimal("AvailableAmount",
                      [dir |-> dir, price |-> price, makeOnly |-> FALSE],
                      AvailableAmount(dir, price))
    /\ UNCHANGED <<marketVars, traderVars, ledgerVars, fill, co, rdr>>

\* ---- sync.RWMutex muOrders
\* RLock is granted while no writer holds the lock or has announced itself.
CanRLock_PastWriter == TRUE

CanRLock == muOrders.w = "none"

\* Lock is granted while nobody holds the lock.
CanLock_IgnoreReaders == muOrders.w = "none"

CanLock == muOrders.w = "none" /\ muOrders.r = {}

\* ---- the order-snapshot callback registered by Init
\* The callback is entered with a snapshot: strategy check, errorlock,
\* LogPanic. The design document (section 7) has the violation raise the
\* halt-trading flag, not an exception, so LogPanic returns.
CbReceive(os) ==
    /\ registered
    /\ cb.pc = "idle"
    /\ errorlock' = (errorlock \/ ForeignStratergy(os))
    /\ cb' = [pc |-> "rlock", os |-> os, o |-> Nil, ok |-> FALSE]
    /\ UNCHANGED <<marketVars, probe, ledgerVars, fill, co, rdr>>
    /\ UNCHANGED <<stratergyId, baseReady, quoteReady, exchangeReady, finished,
                   registered, orders, heap, muOrders, tempRights, sw, mk>>

\* t.muOrders.RLock()
CbRLock ==
    /\ cb.pc = "rlock"
    /\ CanRLock
    /\ muOrders' = [muOrders EXCEPT !.r = @ \cup {"cb"}]
    /\ cb' = [cb EXCEPT !.pc = "lookup"]
    /\ UNCHANGED <<marketVars, probe, ledgerVars, fill, co, rdr>>
    /\ UNCHANGED <<stratergyId, baseReady, quoteReady, exchangeReady, errorlock,
                   finished, registered, orders, heap, tempRights, sw, mk>>

\* o, ok = t.orders[os.ClientOrderID]
LookupAnyOrder(cid) ==
    IF DOMAIN orders # {}
    THEN [o |-> orders[CHOOSE c \in DOMAIN orders : TRUE], ok |-> TRUE]
    ELSE [o |-> Nil, ok |-> FALSE]

Lookup(cid) ==
    IF cid \in DOMAIN orders
    THEN [o |-> orders[cid], ok |-> TRUE]
    ELSE [o |-> Nil, ok |-> FALSE]

\* the lookup and t.muOrders.RUnlock()
CbLookup ==
    /\ cb.pc = "lookup"
    /\ LET l == Lookup(cb.os.ClientOrderID)
       IN cb' = [cb EXCEPT !.pc = "dispatch", !.o = l.o, !.ok = l.ok]
    /\ muOrders' = [muOrders EXCEPT !.r = @ \ {"cb"}]
    /\ UNCHANGED <<marketVars, probe, ledgerVars, fill, co, rdr>>
    /\ UNCHANGED <<stratergyId, baseReady, quoteReady, exchangeReady, errorlock,
                   finished, registered, orders, heap, tempRights, sw, mk>>

\* SpotOrder.onSnapshot (base order state machine, design document 4.3): a
\* cumulative filled amount above the recorded one is a new deal, delivered
\* to the observers in registration order; a terminal status sets Finished.
NewDealSince_OrEqual(filled, cum) == cum >= filled

NewDealSince(filled, cum) == cum > filled

NewDeal(i, os) == NewDealSince(heap[i].Filled, os.cum)

OnSnapshot(i, os) ==
    /\ heap' = [heap EXCEPT ![i].Filled = IF NewDeal(i, os) THEN os.cum ELSE @,
                            ![i].Finished = @ \/ os.final]
    /\ tempRights' =
         IF NewDeal(i, os) /\ \E k \in DOMAIN heap[i].observers :
                                   heap[i].observers[k] = "trader"
         THEN OnDeal(tempRights, heap[i].Dir, os.cum - heap[i].Filled, heap[i].Price)
         ELSE tempRights

\* One order from its construction, with the observers MakeOrder attaches:
\* nothing delivered, nothing filled, nothing emitted.
FillInit ==
    fill = [seen |-> <<>>, Filled |-> 0, deals |-> <<>>, calls |-> <<>>]

\* The OnDeal calls one deal makes: every observer, in registration order.
Fanout(observers, amount) ==
    [k \in DOMAIN observers |-> [obs |-> observers[k], amount |-> amount]]

\* SpotOrder.onSnapshot on that order, with cumulative filled amount cum.
FillSnapshot(cum) ==
    /\ Len(fill.seen) < MaxSnapshots
    /\ fill' =
         IF NewDealSince(fill.Filled, cum)
         THEN [seen |-> Append(fill.seen, cum),
               Filled |-> cum,
               deals |-> Append(fill.deals, cum - fill.Filled),
               calls |-> fill.calls \o Fanout(MakeOrderObservers, cum - fill.Filled)]
         ELSE [fill EXCEPT !.seen = Append(@, cum)]
    /\ UNCHANGED <<marketVars, traderVars, ledgerVars, probe, co, rdr>>

\* if ok { o.onSnapshot(os) }
CbDispatch ==
    /\ cb.pc = "dispatch"
    /\ IF cb.ok
       THEN OnSnapshot(cb.o, cb.os)
       ELSE UNCHANGED <<heap, tempRights>>
    /\ cb' = CbIdle
    /\ UNCHANGED <<marketVars, probe, ledgerVars, fill, co, rdr>>
    /\ UNCHANGED <<stratergyId, baseReady, quoteReady, exchangeReady, errorlock,
                   finished, registered, orders, muOrders, sw, mk>>

\* ---- the sweeper goroutine started by Init
\* The condition of the sweeper's loop: for !t.finished
SweeperContinues_Always == TRUE

SweeperContinues == ~finished

\* for !t.finished: the loop is left once finished is set
SwExit ==
    /\ sw.pc = "test"
    /\ ~SweeperContinues
    /\ sw' = [sw EXCEPT !.pc = "done"]
    /\ UNCHANGED <<marketVars, probe, ledgerVars, fill, co, rdr>>
    /\ UNCHANGED <<stratergyId, baseReady, quoteReady, exchangeReady, errorlock,
                   finished, registered, orders, heap, muOrders, tempRights,
                   cb, mk>>

\* for !t.finished: the condition holds and the goroutine is held up before
\* it calls Lock().
SwTest ==
    /\ sw.pc = "test"
    /\ SweeperContinues
    /\ sw' = [sw EXCEPT !.pc = "lock"]
    /\ UNCHANGED <<marketVars, probe, ledgerVars, fill, co, rdr>>
    /\ UNCHANGED <<stratergyId, baseReady, quoteReady, exchangeReady, errorlock,
                   finished, registered, orders, heap, muOrders, tempRights,
                   cb, mk>>

\* t.muOrders.Lock(), called right after the loop condition was found to
\* hold or after SwTest; the range statement starts over the map as it is
\* now. sw.late counts the passes begun with finished already set.
SwLock ==
    /\ sw.pc = "lock" \/ (sw.pc = "test" /\ SweeperContinues)
    /\ CanLock
    /\ muOrders' = [muOrders EXCEPT !.w = "sweeper"]
    /\ sw' = [pc |-> "range", todo |-> DOMAIN orders,
              startFin |-> {c \in DOMAIN orders : heap[orders[c]].Finished},
              late |-> IF finished THEN Min(sw.late + 1, 2) ELSE sw.late]
    /\ UNCHANGED <<marketVars, probe, ledgerVars, fill, co, rdr>>
    /\ UNCHANGED <<stratergyId, baseReady, quoteReady, exchangeReady, errorlock,
                   finished, registered, orders, heap, tempRights, cb, mk>>

\* The test of the loop body.
SweepRemoves_Unfinished(o) == ~o.Finished

SweepRemoves_All(o) == TRUE

SweepRemoves(o) == o.Finished

\* one iteration: if o.Finished { delete(t.orders, cid) }
SwVisit(cid) ==
    /\ sw.pc = "range"
    /\ cid \in sw.todo
    /\ orders' = IF SweepRemoves(heap[orders[cid]])
                 THEN [c \in DOMAIN orders \ {cid} |-> orders[c]]
                 ELSE orders
    /\ sw' = [sw EXCEPT !.todo = @ \ {cid}]
    /\ UNCHANGED <<marketVars, probe, ledgerVars, fill, co, rdr>>
    /\ UNCHANGED <<stratergyId, baseReady, quoteReady, exchangeReady, errorlock,
                   finished, registered, heap, muOrders, tempRights, cb, mk>>

\* t.muOrders.Unlock(); time.Sleep(time.Second)
SwUnlock ==
    /\ sw.pc = "range"
    /\ sw.todo = {}
    /\ muOrders' = [muOrders EXCEPT !.w = "none"]
    /\ sw' = [SwIdle EXCEPT !.late = sw.late]
    /\ UNCHANGED <<marketVars, probe, ledgerVars, fill, co, rdr>>
    /\ UNCHANGED <<stratergyId, baseReady, quoteReady, exchangeReady, errorlock,
                   finished, registered, orders, heap, tempRights, cb, mk>>

\* ---- SpotTrader.Uninit
Uninit ==
    /\ ~finished
    /\ finished' = TRUE
    /\ registered' = FALSE
    /\ UNCHANGED <<marketVars, probe, ledgerVars, fill, co, rdr>>
    /\ UNCHANGED <<stratergyId, baseReady, quoteReady, exchangeReady, errorlock,
                   orders, heap, muOrders, tempRights, cb, sw, mk>>

\* ---- SpotTrader.MakeOrder, one caller
\* The gate of MakeOrder: if t.Ready()
MakeOrderGate_Open == TRUE

MakeOrderGate == SpotTrader_Ready

\* What MakeOrder does with an order whose Init returned false.
AfterInit_IgnoreResult(ok) == "lock"

AfterInit(ok) == IF ok THEN "lock" ELSE "return nil"

\* entry. t.Ready() is evaluated; when it holds: o := new(SpotOrder) and
\* o.Init(...), whose failure returns nil. mk.ret and mk.why are what the
\* previous call returned; of these a call in progress remembers only
\* whether the previous call was refused as not ready.
MkCall(dir, price, amount) ==
    /\ mk.pc = "idle"
    /\ MakeOrderGate => Len(heap) < MaxOrders
    /\ IF MakeOrderGate
       THEN LET o == NewOrder(dir, price, amount)
            IN /\ heap' = Append(heap, o)
               /\ mk' = IF AfterInit(o.initOK) = "lock"
                        THEN [pc |-> "lock", o |-> Len(heap) + 1, ret |-> Nil,
                              why |-> IF mk.why = "not ready"
                                      THEN "not ready" ELSE "none"]
                        ELSE [pc |-> "idle", o |-> Nil, ret |-> Nil,
                              why |-> "init failed"]
       ELSE /\ mk' = [pc |-> "refuse", o |-> Nil, ret |-> Nil, why |-> "none"]
            /\ UNCHANGED heap
    /\ UNCHANGED <<marketVars, probe, ledgerVars, fill, co, rdr>>
    /\ UNCHANGED <<stratergyId, baseReady, quoteReady, exchangeReady, errorlock,
                   finished, registered, orders, muOrders, tempRights, cb, sw>>

\* else-branch: LogInfo(... t.UnreadyReason()), time.Sleep, return nil
MkRefuse ==
    /\ mk.pc = "refuse"
    /\ mk' = [pc |-> "idle", o |-> Nil, ret |-> Nil, why |-> "not ready"]
    /\ UNCHANGED <<marketVars, probe, ledgerVars, fill, co, rdr>>
    /\ UNCHANGED <<stratergyId, baseReady, quoteReady, exchangeReady, errorlock,
                   finished, registered, orders, heap, muOrders, tempRights,
                   cb, sw>>

\* t.muOrders.Lock()
MkLock ==
    /\ mk.pc = "lock"
    /\ CanLock
    /\ muOrders' = [muOrders EXCEPT !.w = "maker"]
    /\ mk' = [mk EXCEPT !.pc = "insert"]
    /\ UNCHANGED <<marketVars, probe, ledgerVars, fill, co, rdr>>
    /\ UNCHANGED <<stratergyId, baseReady, quoteReady, exchangeReady, errorlock,
                   finished, registered, orders, heap, tempRights, cb, sw>>

\* t.orders[o.CltOrderId] = o; t.muOrders.Unlock()
MkInsert ==
    /\ mk.pc = "insert"
    /\ LET cid == heap[mk.o].CltOrderId
       IN orders' = [c \in DOMAIN orders \cup {cid} |->
                        IF c = cid THEN mk.o ELSE orders[c]]
    /\ muOrders' = [muOrders EXCEPT !.w = "none"]
    /\ mk' = [mk EXCEPT !.pc = "obs1"]
    /\ UNCHANGED <<marketVars, probe, ledgerVars, fill, co, rdr>>
    /\ UNCHANGED <<stratergyId, baseReady, quoteReady, exchangeReady, errorlock,
                   finished, registered, heap, tempRights, cb, sw>>

\* o.AddObserver(t); o.AddObserver(obs): the k-th of the two calls
MkAddObserver(k) ==
    /\ mk.pc = IF k = 1 THEN "obs1" ELSE "obs2"
    /\ heap' = [heap EXCEPT ![mk.o].observers = Append(@, MakeOrderObservers[k])]
    /\ mk' = [mk EXCEPT !.pc = IF k = 1 THEN "obs2" ELSE "go"]
    /\ UNCHANGED <<marketVars, probe, ledgerVars, fill, co, rdr>>
    /\ UNCHANGED <<stratergyId, baseReady, quoteReady, exchangeReady, errorlock,
                   finished, registered, orders, muOrders, tempRights, cb, sw>>

\* o.Go(); return o
MkGo ==
    /\ mk.pc = "go"
    /\ heap' = [heap EXCEPT ![mk.o].sent = TRUE]
    /\ mk' = [pc |-> "idle", o |-> Nil, ret |-> mk.o,
              why |-> IF mk.why = "not ready" THEN "ok after refusal" ELSE "ok"]
    /\ UNCHANGED <<marketVars, probe, ledgerVars, fill, co, rdr>>
    /\ UNCHANGED <<stratergyId, baseReady, quoteReady, exchangeReady, errorlock,
                   finished, registered, orders, muOrders, tempRights, cb, sw>>

\* ------------------------------------------------- okexv5.ContractOrder
\* ContractOrder.getPosSide, with the exchange's position mode (long/short
\* or not), the order's Dir, Size and ReduceOnly and the trader's position.
getPosSide_IgnoreReduceOnly(ls, dir, size, reduceOnly, short, long) ==
    IF ls
    THEN IF dir = Buy
         THEN IF short >= size THEN "short" ELSE "long"
         ELSE IF long >= size THEN "long" ELSE "short"
    ELSE ""

getPosSide(ls, dir, size, reduceOnly, short, long) ==
    IF ls
    THEN IF dir = Buy
         THEN IF short >= size \/ reduceOnly THEN "short" ELSE "long"
         ELSE IF long >= size \/ reduceOnly THEN "long" ELSE "short"
    ELSE ""

\* No contract order is being constructed.
NoContractOrder ==
    [pc |-> "none", ls |-> FALSE, Dir |-> Buy, Size |-> 1, ReduceOnly |-> FALSE,
     valid |-> FALSE, short |-> 0, long |-> 0,
     injected |-> FALSE, ret |-> FALSE, posSide |-> "unset"]

ContractOrderInit == co = NoContractOrder

\* new(ContractOrder) about to be initialised: any direction, size and
\* reduce-only flag, on an exchange in either position mode, with a trader
\* holding any position; valid is what CommonOrder.Init will return.
ContractOrders ==
    {[NoContractOrder EXCEPT !.pc = "new", !.ls = ls, !.Dir = d, !.Size = n,
                             !.ReduceOnly = ro, !.valid = v,
                             !.short = sh, !.long = lg] :
        ls \in BOOLEAN, d \in {Buy, Sell}, n \in 1..MaxPos, ro \in BOOLEAN,
        v \in BOOLEAN, sh \in 0..MaxPos, lg \in 0..MaxPos}

\* ContractOrder.Init: the selectors are set on the base order when
\* CommonOrder.Init returns true; Init returns what it returned.
ContractOrder_Init ==
    /\ co.pc = "new"
    /\ co' = [co EXCEPT !.pc = "inited", !.injected = co.valid, !.ret = co.valid]
    /\ UNCHANGED <<marketVars, traderVars, ledgerVars, fill, rdr, probe>>

\* The trader's position moves before the order is placed.
PositionUpdate(short, long) ==
    /\ co.pc = "inited"
    /\ <<short, long>> # <<co.short, co.long>>
    /\ co' = [co EXCEPT !.short = short, !.long = long]
    /\ UNCHANGED <<marketVars, traderVars, ledgerVars, fill, rdr, probe>>

\* The base order calls the selector it was given, to place the order.
GetPosSideCall ==
    /\ co.pc = "inited"
    /\ co.injected
    /\ co' = [co EXCEPT !.pc = "placed",
                        !.posSide = getPosSide(co.ls, co.Dir, co.Size,
                                               co.ReduceOnly, co.short, co.long)]
    /\ UNCHANGED <<marketVars, traderVars, ledgerVars, fill, rdr, probe>>

\* -------------------------------- callers of String() and of Orders()
ReadersInit ==
    rdr = [str |-> "idle", ord |-> "idle", cap |-> 0, out |-> 0]

\* ---- sync.RWMutex muOrders, Lock() in its two steps
\* Lock(), first step: the writer takes the mutex that excludes other
\* writers and announces itself; from here on RLock() blocks.
\* Lock(), second step: the writer waits for the readers that hold the lock
\* to leave.
CanAnnounce == muOrders.w = "none"

ReadersGone == muOrders.r = {}

\* ---- SpotTrader.String, one caller
\* The market and the balances are rendered; the caller comes to RLock().
StrCall ==
    /\ rdr.str = "idle"
    /\ rdr' = [rdr EXCEPT !.str = "rlock"]
    /\ UNCHANGED traderVars
    /\ UNCHANGED <<marketVars, probe, ledgerVars, fill, co>>

\* t.muOrders.RLock()
StrRLock ==
    /\ rdr.str = "rlock"
    /\ CanRLock
    /\ muOrders' = [muOrders EXCEPT !.r = @ \cup {"str"}]
    /\ rdr' = [rdr EXCEPT !.str = "render"]
    /\ UNCHANGED <<stratergyId, baseReady, quoteReady, exchangeReady, errorlock,
                   finished, registered, orders, heap, tempRights, cb, sw, mk>>
    /\ UNCHANGED <<marketVars, probe, ledgerVars, fill, co>>

\* len(t.orders), the range over t.orders, t.muOrders.RUnlock()
StrRender ==
    /\ rdr.str = "render"
    /\ rdr' = [rdr EXCEPT !.str = "idle"]
    /\ muOrders' = [muOrders EXCEPT !.r = @ \ {"str"}]
    /\ UNCHANGED <<stratergyId, baseReady, quoteReady, exchangeReady, errorlock,
                   finished, registered, orders, heap, tempRights, cb, sw, mk>>
    /\ UNCHANGED <<marketVars, probe, ledgerVars, fill, co>>

\* ---- SpotTrader.Orders, one caller
\* orders := make([]common.Order, 0, len(t.orders))
OrdLen ==
    /\ rdr.ord = "idle"
    /\ rdr' = [rdr EXCEPT !.ord = "lock", !.cap = Cardinality(DOMAIN orders),
                          !.out = 0]
    /\ UNCHANGED traderVars
    /\ UNCHANGED <<marketVars, probe, ledgerVars, fill, co>>

\* t.muOrders.Lock(), first step
OrdLockCall ==
    /\ rdr.ord = "lock"
    /\ CanAnnounce
    /\ muOrders' = [muOrders EXCEPT !.w = "orders"]
    /\ rdr' = [rdr EXCEPT !.ord = "locking"]
    /\ UNCHANGED <<stratergyId, baseReady, quoteReady, exchangeReady, errorlock,
                   finished, registered, orders, heap, tempRights, cb, sw, mk>>
    /\ UNCHANGED <<marketVars, probe, ledgerVars, fill, co>>

\* t.muOrders.Lock(), second step
OrdLockEnter ==
    /\ rdr.ord = "locking"
    /\ ReadersGone
    /\ rdr' = [rdr EXCEPT !.ord = "range"]
    /\ UNCHANGED traderVars
    /\ UNCHANGED <<marketVars, probe, ledgerVars, fill, co>>

\* the range over t.orders with its appends, t.muOrders.Unlock(), return
OrdRange ==
    /\ rdr.ord = "range"
    /\ rdr' = [rdr EXCEPT !.ord = "idle", !.out = Cardinality(DOMAIN orders)]
    /\ muOrders' = [muOrders EXCEPT !.w = "none"]
    /\ UNCHANGED <<stratergyId, baseReady, quoteReady, exchangeReady, errorlock,
                   finished, registered, orders, heap, tempRights, cb, sw, mk>>
    /\ UNCHANGED <<marketVars, probe, ledgerVars, fill, co>>

\* ---- MakeOrder and the sweeper, Lock() in its two steps
\* t.muOrders.Lock() of MakeOrder, first step
MkLockCall ==
    /\ mk.pc = "lock"
    /\ CanAnnounce
    /\ muOrders' = [muOrders EXCEPT !.w = "maker"]
    /\ mk' = [mk EXCEPT !.pc = "locking"]
    /\ UNCHANGED <<stratergyId, baseReady, quoteReady, exchangeReady, errorlock,
                   finished, registered, orders, heap, tempRights, cb, sw>>
    /\ UNCHANGED <<marketVars, probe, ledgerVars, fill, co, rdr>>

\* t.muOrders.Lock() of MakeOrder, second step
MkLockEnter ==
    /\ mk.pc = "locking"
    /\ ReadersGone
    /\ mk' = [mk EXCEPT !.pc = "insert"]
    /\ UNCHANGED <<stratergyId, baseReady, quoteReady, exchangeReady, errorlock,
                   finished, registered, orders, heap, muOrders, tempRights,
                   cb, sw>>
    /\ UNCHANGED <<marketVars, probe, ledgerVars, fill, co, rdr>>

\* t.muOrders.Lock() of the sweeper, first step
SwLockCall ==
    /\ sw.pc = "lock"
    /\ CanAnnounce
    /\ muOrders' = [muOrders EXCEPT !.w = "sweeper"]
    /\ sw' = [sw EXCEPT !.pc = "locking"]
    /\ UNCHANGED <<stratergyId, baseReady, quoteReady, exchangeReady, errorlock,
                   finished, registered, orders, heap, tempRights, cb, mk>>
    /\ UNCHANGED <<marketVars, probe, ledgerVars, fill, co, rdr>>

\* t.muOrders.Lock() of the sweeper, second step; the range statement
\* starts over the map as it is now.
SwLockEnter ==
    /\ sw.pc = "locking"
    /\ ReadersGone
    /\ sw' = [pc |-> "range", todo |-> DOMAIN orders,
              startFin |-> {c \in DOMAIN orders : heap[orders[c]].Finished},
              late |-> IF finished THEN Min(sw.late + 1, 2) ELSE sw.late]
    /\ UNCHANGED <<stratergyId, baseReady, quoteReady, exchangeReady, errorlock,
                   finished, registered, orders, heap, muOrders, tempRights,
                   cb, mk>>
    /\ UNCHANGED <<marketVars, probe, ledgerVars, fill, co, rdr>>

\* ------------------------------------------------------- specifications
ProbeInit ==
    probe = [op |-> "none", ret |-> FALSE, seq |-> 0, arg |-> NoArg, val |-> 0]

\* The trader with its callback, sweeper and one MakeOrder caller. The
\* trader is created on an exchange that is connected and whose balances
\* have had their account snapshot; readiness then follows the depth feed.
Init ==
    /\ MarketInit /\ isSwap
    /\ TraderInit
    /\ LedgerInit
    /\ FillInit
    /\ ContractOrderInit
    /\ ReadersInit
    /\ baseReady = TRUE /\ quoteReady = TRUE /\ exchangeReady = TRUE
    /\ ProbeInit

TraderEnv ==
    \/ \E ccy \in {"base", "quote"} : BalanceReady(ccy)
    \/ \E ok \in BOOLEAN : ExchangeReady(ok)

Callback ==
    \/ \E os \in Snapshots : CbReceive(os)
    \/ CbRLock
    \/ CbLookup
    \/ CbDispatch

Sweeper ==
    \/ SwLock
    \/ \E cid \in sw.todo : SwVisit(cid)
    \/ SwUnlock

\* What the caller asks for: a buy or a sell of the full size, or an order
\* of amount zero (which Init refuses).
Requests ==
    {[dir |-> d, price |-> 1, amount |-> MaxFill] : d \in {Buy}}
    \cup {[dir |-> Buy, price |-> 1, amount |-> 0]}

MakeOrder ==
    \/ \E rq \in Requests : MkCall(rq.dir, rq.price, rq.amount)
    \/ MkRefuse
    \/ MkLock
    \/ MkInsert
    \/ \E k \in 1..2 : MkAddObserver(k)
    \/ MkGo

Next ==
    \/ \E ok \in BOOLEAN : DepthFeed("spot", ok)
    \/ Callback
    \/ Sweeper
    \/ MakeOrder

Spec == Init /\ [][Next]_vars

\* The two markets alone: feeds, staleness timeouts and callers of Ready().
InitMarket ==
    /\ MarketInit
    /\ TraderInit
    /\ LedgerInit
    /\ FillInit
    /\ ContractOrderInit
    /\ ReadersInit
    /\ baseReady = FALSE /\ quoteReady = FALSE /\ exchangeReady = FALSE
    /\ ProbeInit

\* The price limits the venue reports in this specification.
VenueLimits == {[SellLimit |-> 1, BuyLimit |-> MaxPrice]}

\* The streams' callbacks and the staleness tasks of subscribe().
FeedTasks ==
    \/ \E x \in Tasks : Tick(x)
    \/ MarkPriceUpdate
    \/ MarkPriceExpire
    \/ MarkPriceTimeout
    \/ \E resp \in VenueLimits : PriceLimitUpdate(resp)
    \/ PriceLimitPoll
    \/ \E restOK \in BOOLEAN, resp \in VenueLimits : PriceLimitREST(restOK, resp)
    \/ PriceLimitExpire
    \/ PriceLimitTimeout
    \/ FundingRateUpdate
    \/ FundingRateExpire
    \/ FundingRateTimeout

MarketFeeds ==
    \/ \E m \in {"spot", "future"}, ok \in BOOLEAN : DepthFeed(m, ok)
    \/ FeedTasks

NextMarket ==
    \/ MarketFeeds
    \/ SpotMarketReadyCall
    \/ FutureMarketReadyCall

SpecMarket == InitMarket /\ [][NextMarket]_vars

\* The readiness gate of the trader: every input of Ready() moves, the
\* snapshot callback can set the error lock, and a caller asks Ready().
TraderReadyCall ==
    /\ Observe("SpotTrader.Ready", SpotTrader_Ready)
    /\ UNCHANGED <<marketVars, traderVars, ledgerVars, fill, co, rdr>>

\* SpotTrader.UnreadyReason: the reason of the first condition that fails,
\* in the order market, base balance, quote balance, exchange.
SpotTrader_UnreadyReason ==
    IF ~SpotMarket_Ready THEN SpotMarket_UnreadyReason
    ELSE IF ~baseReady THEN "base balance not ready"
    ELSE IF ~quoteReady THEN "quote balance not ready"
    ELSE IF ~exchangeReady THEN "exchange not ready"
    ELSE ""

\* A caller invokes UnreadyReason() and keeps whether the reason is empty.
UnreadyReasonCall ==
    /\ Observe("SpotTrader.UnreadyReason", SpotTrader_UnreadyReason = "")
    /\ UNCHANGED <<marketVars, traderVars, ledgerVars, fill, co, rdr>>

InitReady ==
    /\ MarketInit /\ isSwap
    /\ TraderInit
    /\ LedgerInit
    /\ FillInit
    /\ ContractOrderInit
    /\ ReadersInit
    /\ baseReady = FALSE /\ quoteReady = FALSE /\ exchangeReady = FALSE
    /\ ProbeInit

NextReady ==
    \/ \E ok \in BOOLEAN : DepthFeed("spot", ok)
    \/ TraderEnv
    \/ Callback
    \/ TraderReadyCall

SpecReady == InitReady /\ [][NextReady]_vars

\* The same, with callers of UnreadyReason().
NextReason ==
    \/ \E ok \in BOOLEAN : DepthFeed("spot", ok)
    \/ TraderEnv
    \/ Callback
    \/ TraderReadyCall
    \/ UnreadyReasonCall

SpecReason == InitReady /\ [][NextReason]_vars

\* The trader from Init to past Uninit: orders are made and filled, the
\* sweeper runs, Uninit is called once. Every goroutine that can run gets
\* to run.
NextShutdown ==
    \/ DepthFeed("spot", TRUE)
    \/ \E os \in {x \in Snapshots : x.ClientOrderID # UnknownCid} : CbReceive(os)
    \/ CbRLock
    \/ CbLookup
    \/ CbDispatch
    \/ SwTest
    \/ Sweeper
    \/ SwExit
    \/ MkCall(Buy, 1, MaxFill)
    \/ MkLock
    \/ MkInsert
    \/ \E k \in 1..2 : MkAddObserver(k)
    \/ MkGo
    \/ Uninit

ShutdownFairness ==
    /\ WF_vars(SwTest) /\ WF_vars(SwLock) /\ WF_vars(SwUnlock) /\ WF_vars(SwExit)
    /\ WF_vars(\E cid \in sw.todo : SwVisit(cid))
    /\ WF_vars(MkInsert)
    /\ WF_vars(CbLookup)

SpecShutdown == Init /\ [][NextShutdown]_vars /\ ShutdownFairness

\* One order and the snapshots delivered to it, in any order of cumulative
\* amounts.
NextFill == \E cum \in 0..MaxCum : FillSnapshot(cum)

SpecFill == Init /\ [][NextFill]_vars

\* The trader's live-order map and everything that takes muOrders: the
\* MakeOrder caller, the snapshot callback (delivering the final, full
\* fill of an order), the sweeper, a caller of String() and a caller of
\* Orders(). Every goroutine that can run gets to
\* run, and a goroutine blocked in RLock() or in the first step of Lock()
\* gets the lock when it is free often enough (sync.RWMutex lets the
\* blocked readers in when a writer unlocks, and sync.Mutex hands the lock
\* to a waiter that has waited long).
NextLocks ==
    \/ DepthFeed("spot", TRUE)
    \/ MkCall(Buy, 1, MaxFill)
    \/ MkLockCall
    \/ MkLockEnter
    \/ MkInsert
    \/ \E k \in 1..2 : MkAddObserver(k)
    \/ MkGo
    \/ \E os \in {x \in Snapshots : x.ClientOrderID # UnknownCid /\ x.final
                                         /\ x.cum = MaxFill} : CbReceive(os)
    \/ CbRLock
    \/ CbLookup
    \/ CbDispatch
    \/ SwTest
    \/ SwLockCall
    \/ SwLockEnter
    \/ \E cid \in sw.todo : SwVisit(cid)
    \/ SwUnlock
    \/ StrCall
    \/ StrRLock
    \/ StrRender
    \/ OrdLen
    \/ OrdLockCall
    \/ OrdLockEnter
    \/ OrdRange

LockFairness ==
    /\ SF_vars(CbRLock) /\ SF_vars(StrRLock)
    /\ SF_vars(MkLockCall) /\ SF_vars(SwLockCall) /\ SF_vars(OrdLockCall)
    /\ WF_vars(MkLockEnter) /\ WF_vars(SwLockEnter) /\ WF_vars(OrdLockEnter)
    /\ WF_vars(CbLookup) /\ WF_vars(StrRender) /\ WF_vars(MkInsert)
    /\ WF_vars(OrdRange) /\ WF_vars(SwUnlock)
    /\ WF_vars(\E cid \in sw.todo : SwVisit(cid))

SpecLocks == Init /\ [][NextLocks]_vars /\ LockFairness

\* One contract order: constructed, initialised, its position side asked
\* for, on every input.
InitPosSide ==
    /\ MarketInit /\ isSwap
    /\ TraderInit
    /\ LedgerInit
    /\ FillInit
    /\ co \in ContractOrders
    /\ ReadersInit
    /\ baseReady = TRUE /\ quoteReady = TRUE /\ exchangeReady = TRUE
    /\ ProbeInit

NextPosSide ==
    \/ ContractOrder_Init
    \/ \E short \in 0..MaxPos, long \in 0..MaxPos : PositionUpdate(short, long)
    \/ GetPosSideCall

SpecPosSide == InitPosSide /\ [][NextPosSide]_vars

\* The balances of one trader with the fill callbacks of its orders and a
\* reader. Two fill callbacks can run at once: the balance of a currency is
\* shared by every trader of the exchange that trades it.
InitDeal ==
    /\ MarketInit /\ isSwap
    /\ TraderInit
    /\ LedgerInit
    /\ FillInit
    /\ ContractOrderInit
    /\ ReadersInit
    /\ baseReady = TRUE /\ quoteReady = TRUE /\ exchangeReady = TRUE
    /\ ProbeInit

NextDeal ==
    \/ \E c \in Callers, deal \in Deals : OnDealBase(c, deal)
    \/ \E c \in Callers : OnDealQuote(c)
    \/ ReadRights

SpecDeal == InitDeal /\ [][NextDeal]_vars

\* The derivative market's feeds from Init to past Uninit. Time passes and
\* a task whose ticker has delivered a tick gets to run.
NextFeeds ==
    \/ FeedTasks
    \/ FutureMarket_Uninit

FeedFairness ==
    /\ \A x \in Tasks : WF_vars(Tick(x))
    /\ WF_vars(MarkPriceExpire) /\ WF_vars(MarkPriceTimeout)
    /\ WF_vars(PriceLimitPoll) /\ WF_vars(PriceLimitExpire)
    /\ WF_vars(\E restOK \in BOOLEAN, resp \in VenueLimits :
                   PriceLimitREST(restOK, resp))
    /\ WF_vars(PriceLimitTimeout)
    /\ WF_vars(FundingRateExpire) /\ WF_vars(FundingRateTimeout)

SpecFeeds == InitMarket /\ [][NextFeeds]_vars /\ FeedFairness

\* The derivative market's price limits and callers of AlignPrice.
NextAlign ==
    \/ \E resp \in PriceLimitResps : PriceLimitUpdate(resp)
    \/ \E price \in 1..(MaxPrice + 1), dir \in {Buy, Sell}, makeOnly \in BOOLEAN :
          AlignPriceCall(price, dir, makeOnly)

SpecAlign == InitMarket /\ [][NextAlign]_vars

\* AvailableAmount on every pair of available amounts, every direction and
\* every price.
InitAvail ==
    /\ MarketInit /\ isSwap
    /\ TraderInit
    /\ ledger = [b \in {"base", "quote"} |-> <<>>]
    /\ dl = [c \in Callers |-> [pc |-> "idle", deal |-> NoDeal]]
    /\ rd = [nbase |-> 0, nquote |-> 0]
    /\ avail \in [{"base", "quote"} -> {Dec(n) : n \in 0..MaxAvail}]
    /\ FillInit
    /\ ContractOrderInit
    /\ ReadersInit
    /\ baseReady = TRUE /\ quoteReady = TRUE /\ exchangeReady = TRUE
    /\ ProbeInit

NextAvail ==
    \E dir \in {Buy, Sell}, price \in 1..MaxPrice :
        AvailableAmountCall(dir, Dec(price))

SpecAvail == InitAvail /\ [][NextAvail]_vars

\* ================================================================ claims
\* ---------------------------------------------------------------- C1
\* C1: whatever the feed flags are, a call of SpotMarket.Ready() returns
\* depthOK of the spot market and nothing else, and a call of
\* FutureMarket.Ready() returns depthOK /\ markpriceOK /\ priceLimitOK /\
\* fundingFeeOK of the future market. Checked under SpecMarket.
C1_ReadyAndLaw ==
    [][probe' # probe =>
         IF probe'.op = "SpotMarket.Ready"
         THEN probe'.ret = depthOK["spot"]
         ELSE probe'.ret = (depthOK["future"] /\ markpriceOK /\ priceLimitOK
                            /\ fundingFeeOK)]_vars

\* A derivative market whose four feeds are all fresh answers true while the
\* spot market, whose depth is stale, is not ready.
C1_Witness ==
    /\ probe.op = "FutureMarket.Ready" /\ probe.ret
    /\ isSwap /\ FutureMarket_Ready /\ ~SpotMarket_Ready

\* ---------------------------------------------------------------- C2
\* C2: a call of SpotTrader.Ready() returns true exactly when, at the call,
\* the market is ready, the base and quote balances are ready, exchangeReady
\* is true and errorlock is false. Checked under SpecReady.
C2_TraderReadyLaw ==
    [][(probe' # probe /\ probe'.op = "SpotTrader.Ready") =>
         probe'.ret = (/\ SpotMarket_Ready
                       /\ baseReady
                       /\ quoteReady
                       /\ exchangeReady
                       /\ ~errorlock)]_vars

\* Ready() answered false although market, balances and exchange are all
\* ready: the error lock alone closes the gate.
C2_Witness ==
    /\ probe.op = "SpotTrader.Ready" /\ ~probe.ret
    /\ SpotMarket_Ready /\ baseReady /\ quoteReady /\ exchangeReady
    /\ errorlock

\* ---------------------------------------------------------------- C3
\* C3: once errorlock is set it stays set, Ready() is false from then on, and
\* no step after that inserts an order into the live-order map or submits
\* one, a MakeOrder call that evaluated Ready() before the lock included.
C3_ErrorLockPermanence ==
    [][errorlock =>
         /\ errorlock'
         /\ ~SpotTrader_Ready'
         /\ DOMAIN orders' \subseteq DOMAIN orders
         /\ \A i \in 1..Len(heap') :
               heap'[i].sent => (i <= Len(heap) /\ heap[i].sent)]_vars

\* ---------------------------------------------------------------- C4
\* C4 as claimed: a snapshot whose StratergyId differs from the trader's
\* leaves errorlock set when the callback has taken it in.
C4_AnyOtherIdLocks ==
    (cb.pc # "idle" /\ cb.os.StratergyId # stratergyId) => errorlock

\* C4 as amended: taking in a snapshot sets errorlock exactly when its
\* StratergyId is greater than 0 and differs from the trader's; a snapshot
\* with the trader's own id, or with id 0 (no strategy tag), leaves errorlock
\* as it was.
C4_PositiveOtherIdLocks ==
    [][(cb.pc = "idle" /\ cb'.pc # "idle") =>
         errorlock' = (errorlock \/ (/\ cb'.os.StratergyId > 0
                                     /\ cb'.os.StratergyId # stratergyId))]_vars

\* The callback has taken in a snapshot of another strategy and the lock is set.
C4_Witness ==
    /\ cb.pc = "rlock"
    /\ cb.os.StratergyId = stratergyId + 1
    /\ errorlock

\* ---------------------------------------------------------------- C5
\* C5: a MakeOrder call that finds the trader not ready takes the refusal
\* branch and returns nil; neither step constructs an order or changes the
\* live-order map, the orders, the balances' rights or the error lock.
C5_RefusalFrame ==
    [][/\ (mk.pc = "idle" /\ mk' # mk /\ ~SpotTrader_Ready) =>
            (mk'.pc = "refuse" /\ orders' = orders /\ heap' = heap)
       /\ (mk.pc = "refuse" /\ mk' # mk) =>
            /\ mk'.pc = "idle" /\ mk'.ret = Nil
            /\ orders' = orders /\ heap' = heap
            /\ tempRights' = tempRights /\ errorlock' = errorlock]_vars

\* A call was refused as not ready and the next call, made when the trader
\* was ready, returned a submitted order.
C5_Witness ==
    /\ mk.pc = "idle" /\ mk.why = "ok after refusal"
    /\ mk.ret # Nil /\ heap[mk.ret].sent
    /\ ~errorlock

\* ---------------------------------------------------------------- C6
\* C6: an order whose Init returned false is never in the live-order map,
\* never gets an observer and is never submitted, and the call that
\* constructed it returned nil.
C6_ValidationLocal ==
    /\ \A i \in Refs :
          ~heap[i].initOK =>
              (~InMap(i) /\ heap[i].observers = <<>> /\ ~heap[i].sent
               /\ mk.o # i)
    /\ mk.why = "init failed" => (mk.pc = "idle" /\ mk.ret = Nil)

\* MakeOrder has just returned nil for an order refused by Init, with the
\* trader ready.
C6_Witness ==
    /\ mk.pc = "idle" /\ mk.why = "init failed"
    /\ \E i \in Refs : ~heap[i].initOK
    /\ SpotTrader_Ready

\* ---------------------------------------------------------------- C7
\* The order of MakeOrder's steps on a valid order: in the map before the
\* first observer, the trader before the caller's observer, both before
\* Go(); a submitted order has exactly the observers trader, caller, in that
\* order (the order in which every deal is delivered).
MakeOrderSequence ==
    /\ mk.pc \in {"obs1", "obs2", "go"} =>
          (InMap(mk.o) /\ orders[heap[mk.o].CltOrderId] = mk.o /\ ~heap[mk.o].sent)
    /\ mk.pc = "obs1" => heap[mk.o].observers = <<>>
    /\ mk.pc = "obs2" => heap[mk.o].observers = <<"trader">>
    /\ mk.pc = "go" => heap[mk.o].observers = <<"trader", "caller">>
    /\ \A i \in SentRefs : heap[i].observers = <<"trader", "caller">>

\* The order a snapshot in the callback's hands belongs to (Nil: none).
SnapshotOrder ==
    IF \E i \in Refs : heap[i].CltOrderId = cb.os.ClientOrderID
    THEN CHOOSE i \in Refs : heap[i].CltOrderId = cb.os.ClientOrderID
    ELSE Nil

\* C7 as claimed: the sequence above, and the lookup for a snapshot of a
\* submitted order always finds the order in the map, with its observers.
C7_SubmittedAlwaysFound ==
    /\ MakeOrderSequence
    /\ (cb.pc = "dispatch" /\ SnapshotOrder # Nil) =>
          (cb.ok /\ cb.o = SnapshotOrder
           /\ heap[cb.o].observers = <<"trader", "caller">>)

\* C7 as amended: the sequence above; the lookup for a snapshot of a
\* submitted order finds the order, with both observers, unless the order
\* is Finished (the sweep removes Finished orders, and a snapshot arriving
\* after that is dropped).
C7_SubmittedFoundUntilSwept ==
    /\ MakeOrderSequence
    /\ (cb.pc = "dispatch" /\ SnapshotOrder # Nil) =>
          IF cb.ok
          THEN cb.o = SnapshotOrder
               /\ heap[cb.o].observers = <<"trader", "caller">>
          ELSE heap[SnapshotOrder].Finished
    /\ \A i \in SentRefs : InMap(i) \/ heap[i].Finished

\* A snapshot that is a new deal of a submitted order is about to be
\* delivered to its observers, while MakeOrder is attaching the observers of
\* the next order.
C7_Witness ==
    /\ cb.pc = "dispatch" /\ cb.ok
    /\ NewDeal(cb.o, cb.os)
    /\ mk.pc = "obs2"

\* ---------------------------------------------------------------- C8
\* C8: the lookup yields the order stored under the snapshot's
\* ClientOrderID, or nothing when the id is not in the map; the dispatch
\* then applies the snapshot to that one order (recorded fill and Finished
\* follow the snapshot, every other order is untouched) and, when nothing
\* was found, changes no order, no balance and not the map.
C8_SnapshotRouting ==
    /\ [](\A c \in DOMAIN orders : heap[orders[c]].CltOrderId = c)
    /\ [][/\ (cb.pc = "lookup" /\ cb'.pc = "dispatch") =>
               /\ cb'.ok = (cb.os.ClientOrderID \in DOMAIN orders)
               /\ cb'.ok => cb'.o = orders[cb.os.ClientOrderID]
               /\ ~cb'.ok => cb'.o = Nil
          /\ (cb.pc = "dispatch" /\ cb'.pc = "idle") =>
               /\ orders' = orders
               /\ IF cb.ok
                  THEN /\ heap[cb.o].CltOrderId = cb.os.ClientOrderID
                       /\ \A i \in Refs : i # cb.o => heap'[i] = heap[i]
                       /\ heap'[cb.o].Filled >= cb.os.cum
                       /\ heap'[cb.o].Finished = (heap[cb.o].Finished \/ cb.os.final)
                  ELSE heap' = heap /\ tempRights' = tempRights]_vars

\* A snapshot with an unknown client id is on its way out of the callback
\* while the map holds an order with fills on the balances.
C8_Witness ==
    /\ cb.pc = "dispatch" /\ ~cb.ok
    /\ cb.os.ClientOrderID = UnknownCid
    /\ DOMAIN orders # {}
    /\ tempRights.base # 0

\* ---------------------------------------------------------------- C9
\* C9: within one locked pass of the sweep, an iteration removes the order
\* it visits exactly when that order's Finished flag is set and removes
\* nothing else; every order that was Finished when the pass began is gone
\* once it has been visited, so that at the end of the pass the map holds no
\* order that was terminal when the pass began and every order that is not
\* terminal.
C9_SweepExact ==
    /\ [](sw.pc = "range" =>
            /\ \A c \in sw.startFin : c \in sw.todo \/ c \notin DOMAIN orders
            /\ sw.todo \subseteq DOMAIN orders
            /\ sw.todo = {} =>
                  \A c \in DOMAIN orders :
                      heap[orders[c]].Finished => c \notin sw.startFin)
    /\ [][(sw.pc = "range" /\ sw'.pc = "range" /\ sw' # sw) =>
            /\ DOMAIN orders' \subseteq DOMAIN orders
            /\ \A c \in DOMAIN orders :
                  c \notin DOMAIN orders' <=>
                      (c \in sw.todo \ sw'.todo /\ heap[orders[c]].Finished)
            /\ \A c \in DOMAIN orders' : orders'[c] = orders[c]]_vars

\* The end of a pass that removed a terminal order and kept a live one.
C9_Witness ==
    /\ sw.pc = "range" /\ sw.todo = {}
    /\ sw.startFin # {}
    /\ \E c \in DOMAIN orders : ~heap[orders[c]].Finished

\* ---------------------------------------------------------------- C10
\* C10 as claimed: the sweeper is never inside its locked removal loop while
\* the callback is between its lookup and the end of o.onSnapshot.
C10_NoDispatchDuringSweep ==
    ~(sw.pc = "range" /\ cb.pc = "dispatch" /\ cb.ok)

\* C10 as amended: the sweeper is never inside its locked removal loop while
\* the callback holds the read lock for its lookup; the lock is held by the
\* sweeper exactly during the loop and by the callback exactly during the
\* lookup (o.onSnapshot runs after RUnlock and may overlap a sweep).
C10_NoLookupDuringSweep ==
    /\ ~(sw.pc = "range" /\ cb.pc = "lookup")
    /\ (muOrders.w = "sweeper") = (sw.pc = "range")
    /\ ("cb" \in muOrders.r) = (cb.pc = "lookup")
    /\ ~(muOrders.w # "none" /\ muOrders.r # {})

\* The sweeper is inside its loop and the callback, holding a snapshot,
\* waits for the read lock.
C10_Witness ==
    /\ sw.pc = "range" /\ sw.todo # {}
    /\ cb.pc = "rlock"
    /\ cb.os.ClientOrderID \in DOMAIN orders

\* ---------------------------------------------------------------- C11
\* C11 as claimed: whatever the sweeper does meanwhile, a snapshot delivered
\* for an order of this trader is applied to that order when the callback
\* completes: the lookup found the order.
C11_EverySnapshotApplied ==
    [][(cb.pc = "dispatch" /\ cb'.pc = "idle" /\ SnapshotOrder # Nil) =>
          (cb.ok /\ cb.o = SnapshotOrder)]_vars

\* C11 as amended: one delivery runs receive, lookup, dispatch once each; an
\* order's recorded fill and Finished flag change only in the dispatch of a
\* snapshot that carries its id, so no snapshot is applied twice or to
\* another order; a snapshot of an order that is not Finished is always
\* applied, a sweep in progress or not; a snapshot is dropped (no order, no
\* balance changes) only when its order is already Finished.
C11_AppliedOnceUnlessFinished ==
    [][/\ cb' # cb =>
            <<cb.pc, cb'.pc>> \in {<<"idle", "rlock">>, <<"rlock", "lookup">>,
                                   <<"lookup", "dispatch">>, <<"dispatch", "idle">>}
       /\ \A i \in Refs :
            (heap'[i].Filled # heap[i].Filled \/ heap'[i].Finished # heap[i].Finished)
               => (/\ cb.pc = "dispatch" /\ cb'.pc = "idle"
                   /\ cb.ok /\ cb.o = i /\ SnapshotOrder = i)
       /\ (cb.pc = "dispatch" /\ cb'.pc = "idle" /\ SnapshotOrder # Nil) =>
            IF cb.ok
            THEN /\ cb.o = SnapshotOrder
                 /\ heap'[cb.o].Filled = IF cb.os.cum > heap[cb.o].Filled
                                         THEN cb.os.cum ELSE heap[cb.o].Filled
                 /\ heap'[cb.o].Finished = (heap[cb.o].Finished \/ cb.os.final)
            ELSE /\ heap[SnapshotOrder].Finished
                 /\ heap' = heap /\ tempRights' = tempRights]_vars

\* A new deal of a live order is about to be applied while the sweeper is
\* inside its loop and has that order still to visit.
C11_Witness ==
    /\ cb.pc = "dispatch" /\ cb.ok
    /\ NewDeal(cb.o, cb.os) /\ ~heap[cb.o].Finished
    /\ sw.pc = "range" /\ cb.os.ClientOrderID \in sw.todo

\* ---------------------------------------------------------------- C12
\* C12: reconciling a deal of amount A at price P with update time T records
\* exactly one adjustment on the base balance and then exactly one on the
\* quote balance, both stamped T: +A and -A*P for a Buy order, -A and +A*P
\* for a Sell order; and after one deal has been reconciled, base rights
\* valued at P plus quote rights are what they were before it.
C12_RightsDeltas ==
    /\ [][\A c \in Callers :
            /\ (dl[c].pc = "idle" /\ dl'[c].pc = "quote") =>
                  LET d == dl'[c].deal
                  IN /\ ledger'["base"] =
                          Append(ledger["base"],
                                 [delta |-> IF d.dir = Buy THEN d.Amount
                                            ELSE 0 - d.Amount,
                                  at |-> d.UTime])
                     /\ ledger'["quote"] = ledger["quote"]
            /\ (dl[c].pc = "quote" /\ dl'[c].pc = "idle") =>
                  LET d == dl[c].deal
                  IN /\ ledger'["quote"] =
                          Append(ledger["quote"],
                                 [delta |-> IF d.dir = Buy
                                            THEN 0 - (d.Amount * d.Price)
                                            ELSE d.Amount * d.Price,
                                  at |-> d.UTime])
                     /\ ledger'["base"] = ledger["base"]]_vars
    /\ [](\A c \in Callers :
            (/\ dl[c].pc = "idle" /\ dl[c].deal # NoDeal
             /\ Len(ledger["base"]) = 1 /\ Len(ledger["quote"]) = 1)
            => TempRights("base") * dl[c].deal.Price + TempRights("quote") = 0)

\* A Buy deal at price 2 and then a Sell deal at price 1 have both been
\* reconciled: the base rights are back where they were and the quote
\* rights are down by the price difference.
C12_Witness ==
    /\ \A c \in Callers : dl[c].pc = "idle"
    /\ Len(ledger["base"]) = 2 /\ Len(ledger["quote"]) = 2
    /\ ledger["base"][1].delta > 0 /\ ledger["quote"][1].delta = 0 - 2 * ledger["base"][1].delta
    /\ ledger["base"][2].delta < 0 /\ ledger["quote"][2].delta = 0 - ledger["base"][2].delta
    /\ TempRights("base") = 0 /\ TempRights("quote") < 0

\* ---------------------------------------------------------------- C13
\* C13: a reader of the two balances never sees the base adjustment of a
\* deal without its quote adjustment: what it reads holds as many base
\* adjustments as quote adjustments.
C13_NoTornRead ==
    rd.nbase = rd.nquote

C15_ClampOnlyWhenKnown ==
    [][(probe' # probe /\ probe'.op = "AlignPrice") =>
         LET aligned == CommonMarket_AlignPrice(probe'.arg.price, probe'.arg.dir,
                                                probe'.arg.makeOnly)
         IN IF maxBuyPrice = 0 /\ minSellPrice = 0
            THEN probe'.val = aligned
            ELSE IF probe'.arg.dir = Buy
                 THEN probe'.val = Min(aligned, maxBuyPrice)
                 ELSE probe'.val = Max(aligned, minSellPrice)]_vars

C18_TasksStopAfterUninit ==
    (~subscribed) ~> [](\A x \in Tasks : task[x] = "wait")

\* ---------------------------------------------------------------- C19
\* C19: no flag is written by two tasks at once in such a way that the
\* 'false' of a timeout lands on the 'true' of an update that has just
\* arrived: whenever markpriceOK, priceLimitOK or (on a SWAP instrument)
\* fundingFeeOK goes from true to false, the feed has had no update for a
\* full window.
C19_NoTimeoutOverUpdate ==
    [][/\ (markpriceOK /\ ~markpriceOK') => quiet["mark"] = Window("mark")
       /\ (priceLimitOK /\ ~priceLimitOK') => quiet["limit"] = Window("limit")
       /\ (fundingFeeOK /\ ~fundingFeeOK') => quiet["fund"] = Window("fund")]_vars

\* ---------------------------------------------------------------- C17
\* C17: after Uninit has set finished the sweeper begins at most one more
\* pass; it leaves its loop only at the loop condition, with finished set;
\* orders are removed from the map inside a pass only, never once the
\* sweeper has left the loop; and, every goroutine getting to run, the
\* sweeper does leave the loop once finished is set.
C17_SweeperStops ==
    /\ [](sw.late <= 1)
    /\ [][/\ (sw.pc # "done" /\ sw'.pc = "done") => (finished /\ sw.pc = "test")
          /\ sw.pc = "done" => (sw' = sw /\ DOMAIN orders \subseteq DOMAIN orders')
          /\ (\E c \in DOMAIN orders : c \notin DOMAIN orders') => sw.pc = "range"
          /\ finished => finished']_vars
    /\ finished ~> (sw.pc = "done")

\* The sweeper has left its loop after a pass begun with finished already
\* set, in which it removed a terminal order.
C17_Witness ==
    /\ sw.pc = "done" /\ sw.late = 1
    /\ finished
    /\ \E i \in SentRefs : heap[i].Finished /\ ~InMap(i)
    /\ muOrders.w = "none"

\* ---------------------------------------------------------------- C20
\* The largest cumulative amount among the snapshots delivered so far.
RECURSIVE Highest(_)
Highest(seq) ==
    IF seq = <<>> THEN 0 ELSE Max(seq[Len(seq)], Highest(SubSeq(seq, 1, Len(seq) - 1)))

\* C20: a snapshot delivered to an order emits a deal exactly when its
\* cumulative amount is above the largest one delivered before, the deal's
\* amount being the increase; a snapshot with the same or a lower amount
\* emits nothing; and each emitted deal is one OnDeal call on every
\* observer, in registration order.
C20_MonotonicFill ==
    [][LET cum == fill'.seen[Len(fill'.seen)]
           high == Highest(fill.seen)
       IN  fill'.seen # fill.seen =>
             IF cum > high
             THEN /\ fill'.deals = Append(fill.deals, cum - high)
                  /\ fill'.calls = fill.calls \o
                        <<[obs |-> "trader", amount |-> cum - high],
                          [obs |-> "caller", amount |-> cum - high]>>
             ELSE /\ fill'.deals = fill.deals
                  /\ fill'.calls = fill.calls]_vars

\* Cumulative 0.3, 0.3, 0.7 delivered: two deals, 0.3 and 0.4, each one
\* call on the trader and one on the caller.
C20_Witness ==
    /\ fill.seen = <<3, 3, 7>>
    /\ fill.deals = <<3, 4>>
    /\ fill.calls = <<[obs |-> "trader", amount |-> 3], [obs |-> "caller", amount |-> 3],
                      [obs |-> "trader", amount |-> 4], [obs |-> "caller", amount |-> 4]>>

\* ---------------------------------------------------------------- C23
\* C23: on an instrument that is not a SWAP the funding-rate task does not
\* exist (its ticker never runs, it never takes an expiry), fundingFeeOK is
\* true from the end of subscribe() on and for good, and every Ready() call
\* returns depthOK AND markpriceOK AND priceLimitOK; on a SWAP instrument
\* fundingFeeOK is false when Init returns and becomes true by a
\* funding-rate update only.
C23_FundingPerpetualOnly ==
    /\ isSwap <=> ~fundingFeeOK
    /\ [](~isSwap => /\ fundingFeeOK
                     /\ tk["fund"] = 0 /\ quiet["fund"] = 0
                     /\ task["fund"] = "wait")
    /\ [][/\ (~isSwap /\ FutureMarketReadyCall) =>
               probe'.ret = (depthOK["future"] /\ markpriceOK /\ priceLimitOK)
          /\ (isSwap /\ ~fundingFeeOK /\ fundingFeeOK') =>
               (subscribed /\ tk'["fund"] = 0 /\ quiet'["fund"] = 0
                  /\ task' = task)
          /\ isSwap' = isSwap]_vars

\* A market that is not a SWAP has been found ready by a caller, its three
\* other flags set, with time gone by since the last price-limit update.
C23_Witness ==
    /\ ~isSwap /\ fundingFeeOK
    /\ probe.op = "FutureMarket.Ready" /\ probe.ret
    /\ depthOK["future"] /\ markpriceOK /\ priceLimitOK
    /\ quiet["limit"] > 0

\* ---------------------------------------------------------------- C25
\* C25: UnreadyReason() returns the empty string exactly when Ready() is
\* true, in every state and at every call; and a reason that is not empty
\* is the one of the first failing condition, in the order market, base
\* balance, quote balance, exchange.
C25_ReasonAgreesWithReady ==
    /\ [](SpotTrader_UnreadyReason = "" <=> SpotTrader_Ready)
    /\ [](LET reason == SpotTrader_UnreadyReason
          IN /\ ~depthOK["spot"] => reason = "depth not ready"
             /\ (depthOK["spot"] /\ ~baseReady) => reason = "base balance not ready"
             /\ (depthOK["spot"] /\ baseReady /\ ~quoteReady) =>
                    reason = "quote balance not ready"
             /\ (depthOK["spot"] /\ baseReady /\ quoteReady /\ ~exchangeReady) =>
                    reason = "exchange not ready")
    /\ [][UnreadyReasonCall => (probe'.ret <=> SpotTrader_Ready)]_vars

\* ---------------------------------------------------------------- C22
\* C22: the price-limit task polls over REST when the 10 s ticker has run
\* its period; a successful poll stores the limits, sets priceLimitOK and
\* starts the window again, a failed poll leaves limits, flag and tickers
\* as they are; and the task takes the resubscription case, clears
\* priceLimitOK and calls Reset(), only when 20 s have gone by with neither
\* a push nor a successful poll.
C22_PriceLimitFallback ==
    [][/\ (task["limit"] = "wait" /\ task'["limit"] = "rest") =>
             tk["rest"] = Period["rest"]
       /\ \A resp \in VenueLimits :
             /\ PriceLimitREST(TRUE, resp) =>
                   /\ priceLimitOK' /\ quiet'["limit"] = 0
                   /\ minSellPrice' = resp.SellLimit /\ maxBuyPrice' = resp.BuyLimit
             /\ PriceLimitREST(FALSE, resp) =>
                   UNCHANGED <<priceLimitOK, minSellPrice, maxBuyPrice, tk, quiet>>
       /\ (priceLimitOK /\ ~priceLimitOK') => task["limit"] = "resub"
       /\ (task["limit"] = "wait" /\ task'["limit"] = "resub") =>
             quiet["limit"] = Window("limit")]_vars

\* ---------------------------------------------------------------- C24
\* C24: getPosSide returns "" when the exchange is not in long/short mode;
\* in long/short mode a Buy gets "short" exactly when the short position is
\* at least the order's size or the order is reduce-only, else "long"; a
\* Sell gets "long" exactly when the long position is at least the order's
\* size or the order is reduce-only, else "short"; so a reduce-only order
\* gets the side it closes; and the base order holds the selectors only
\* after an Init whose validation succeeded, Init returning that result.
C24_PosSide ==
    /\ [][GetPosSideCall =>
            LET side == co'.posSide
            IN IF ~co.ls THEN side = ""
               ELSE /\ side \in {"long", "short"}
                    /\ co.Dir = Buy =>
                          (side = "short" <=> (co.short >= co.Size \/ co.ReduceOnly))
                    /\ co.Dir = Sell =>
                          (side = "long" <=> (co.long >= co.Size \/ co.ReduceOnly))
                    /\ co.ReduceOnly =>
                          side = IF co.Dir = Buy THEN "short" ELSE "long"]_vars
    /\ [](co.injected => (co.valid /\ co.pc # "new"))
    /\ [](co.pc # "new" => (co.ret = co.valid /\ co.injected = co.valid))

\* In long/short mode a reduce-only Buy larger than the short position has
\* been given the side "short", and not the "long" that would open.
C24_Witness ==
    /\ co.pc = "placed" /\ co.ls /\ co.Dir = Buy /\ co.ReduceOnly
    /\ co.short < co.Size
    /\ co.posSide = "short"

\* ---------------------------------------------------------------- C21
\* C21: every access to the orders map is made with muOrders held: the
\* callback's lookup and the rendering of String() under the read lock;
\* the len() and the range of Orders(), the insertion of MakeOrder and the
\* deletions of the sweeper under the write lock.
C21_MapAccessUnderLock ==
    [][/\ CbLookup => "cb" \in muOrders.r
       /\ StrRender => "str" \in muOrders.r
       /\ OrdLen => (muOrders.w = "orders" /\ ReadersGone)
       /\ OrdRange => (muOrders.w = "orders" /\ ReadersGone)
       /\ MkInsert => (muOrders.w = "maker" /\ ReadersGone)
       /\ (\E cid \in sw.todo : SwVisit(cid)) =>
             (muOrders.w = "sweeper" /\ ReadersGone)
       /\ orders' # orders => muOrders.w \in {"maker", "sweeper"}]_vars

\* ---------------------------------------------------------------- C26
\* C26: nobody holds muOrders while waiting for another holder: a reader
\* holds it only for its lookup or its rendering, a writer only between
\* its Lock() and its insertion, range or sweep, and the sweeper does not
\* hold it between passes. So everyone that requests the lock gets it and
\* gives it back: the MakeOrder caller, the snapshot callback, the callers
\* of String() and of Orders(), and the sweeper.
C26_NoStarvation ==
    /\ [](/\ "cb" \in muOrders.r <=> cb.pc = "lookup"
          /\ "str" \in muOrders.r <=> rdr.str = "render"
          /\ muOrders.w = "maker" <=> mk.pc \in {"locking", "insert"}
          /\ muOrders.w = "orders" <=> rdr.ord \in {"locking", "range"}
          /\ muOrders.w = "sweeper" <=> sw.pc \in {"locking", "range"}
          /\ (mk.pc = "insert" \/ rdr.ord = "range" \/ sw.pc = "range") =>
                muOrders.r = {})
    /\ (mk.pc = "lock") ~> (mk.pc = "insert")
    /\ (mk.pc = "insert") ~> (mk.pc = "obs1" /\ muOrders.w # "maker")
    /\ (cb.pc = "rlock") ~> (cb.pc = "lookup")
    /\ (cb.pc = "lookup") ~> (cb.pc = "dispatch" /\ "cb" \notin muOrders.r)
    /\ (rdr.str = "rlock") ~> (rdr.str = "render")
    /\ (rdr.str = "render") ~> (rdr.str = "idle" /\ "str" \notin muOrders.r)
    /\ (rdr.ord = "lock") ~> (rdr.ord = "range")
    /\ (rdr.ord = "range") ~> (rdr.ord = "idle" /\ muOrders.w # "orders")
    /\ (sw.pc = "lock") ~> (sw.pc = "range")
    /\ (sw.pc = "range") ~> (sw.pc = "test" /\ muOrders.w # "sweeper")

\* Everybody is at the lock at once: the String() caller holds the read
\* lock, the MakeOrder caller has announced itself and waits for it to
\* leave, the callback is blocked in RLock() behind the writer, and the
\* sweeper and the Orders() caller wait to announce themselves.
C26_Witness ==
    /\ rdr.str = "render" /\ "str" \in muOrders.r
    /\ mk.pc = "locking" /\ muOrders.w = "maker"
    /\ cb.pc = "rlock"
    /\ sw.pc = "lock" /\ rdr.ord = "lock"
    /\ DOMAIN orders # {}

====
